---- MODULE Spec2Model ----
(***************************************************************************)
(* Model of src/steps.py: validate_tracks, compute_steps_for_tau,          *)
(* compute_steps_multi_tau and summary_by_tau.                             *)
(*                                                                         *)
(* A DataFrame is a pair (set of column names, sequence of rows); a row is *)
(* a function from the column names to values.  float64 values are         *)
(* modelled by a binary floating-point format with Prec significand bits   *)
(* and round-to-nearest-even, written as integer multiples of the smallest *)
(* unit; NaN is a tagged value.  A raised ValueError is a result whose     *)
(* status names the error.                                                 *)
(***************************************************************************)
EXTENDS Integers, Sequences, FiniteSets, TLC

VARIABLES cols, tracks, steps_all, call, out

vars == <<cols, tracks, steps_all, call, out>>

(***************************************************************************)
(* Bounds of the model.                                                    *)
(***************************************************************************)
\* significand bits of the modelled float format (float64 has 53)
Prec == 3
\* rows of a tracks table, single-lag specification
MaxRows == 3
\* rows of a tracks table, multi-lag specification
MaxMultiRows == 2
\* rows of a tracks table, column-validation specification
MaxColRows == 1
\* length of the taus list
MaxTaus == 2
\* rows of a hand-built Steps table given to summary_by_tau
MaxSteps == 4

CellIds == {1, 2}
Frames == 0 .. 2
\* requested lags: negative, zero and positive ones
Lags == -1 .. 3
\* observations (t_min, x_um, y_um); every value is representable
Points ==
    { [t_min |-> 0, x_um |-> 1,  y_um |-> 0],
      [t_min |-> 2, x_um |-> 10, y_um |-> 3],
      [t_min |-> 3, x_um |-> 12, y_um |-> 1] }

(***************************************************************************)
(* float64 arithmetic, scaled down to Prec significand bits.               *)
(***************************************************************************)
RECURSIVE Pow2(_)
Pow2(n) == IF n = 0 THEN 1 ELSE 2 * Pow2(n - 1)

\* nearest multiple of q to n >= 0, ties to the even multiple
NearestMultiple(n, q) ==
    LET lo == n \div q
        rem == n % q
    IN  IF 2 * rem < q THEN lo * q
        ELSE IF 2 * rem > q THEN (lo + 1) * q
        ELSE IF lo % 2 = 0 THEN lo * q ELSE (lo + 1) * q

RECURSIVE RoundMag(_, _)
RoundMag(n, q) ==
    IF n < q * Pow2(Prec) THEN NearestMultiple(n, q) ELSE RoundMag(n, 2 * q)

\* the representable value nearest to the exact value n
Round(n) == IF n < 0 THEN 0 - RoundMag(0 - n, 1) ELSE RoundMag(n, 1)

NaN == [nan |-> TRUE, v |-> 0]
Val(n) == [nan |-> FALSE, v |-> n]

\* float64 subtraction a - b on possibly-NaN operands
FSub(a, b) == IF a.nan \/ b.nan THEN NaN ELSE Val(Round(a.v - b.v))

\* float64 addition of two numbers
FAdd(a, b) == Round(a + b)

\* float64 division by 2: exact unless the quotient falls below the unit
FHalf(a) ==
    IF a % 2 = 0 THEN a \div 2
    ELSE IF a < 0 THEN 0 - NearestMultiple(0 - a, 2) \div 2
    ELSE NearestMultiple(a, 2) \div 2

\* int64 -> float64 (the dtype shift() gives an integer column)
IntToFloat(n) == Round(n)

\* astype(int) of a float64 column that holds integral values, and of an
\* integer column
astype_int(x) == x

\* astype(float): the float64 nearest to the value
astype_float(x) == Round(x)

(***************************************************************************)
(* Tables.                                                                 *)
(***************************************************************************)
REQUIRED_TRACK_COLS == {"cell_id", "frame", "t_min", "x_um", "y_um"}

\* Python's order of the column names, as sorted() uses it
ColumnOrder == <<"cell_id", "frame", "t_min", "x_um", "y_um">>

AllCols == REQUIRED_TRACK_COLS \cup {"note"}

\* a full row of a tracks table with every column of AllCols
FullRow(c, f, p) ==
    [cell_id |-> c, frame |-> f, t_min |-> p.t_min, x_um |-> p.x_um,
     y_um |-> p.y_um, note |-> 0]

\* the row restricted to the columns the table has
RowOn(cs, r) == [k \in cs |-> r[k]]

\* The outcome of a call: "ok" with the returned rows, or the ValueError
\* raised ("MissingColumns" with the names of its message, "InvalidLag",
\* "NoObjectsToConcatenate").  at is the place in taus of the lag whose
\* extraction raised inside compute_steps_multi_tau, 0 otherwise.
EmptyResult == [status |-> "none", rows |-> <<>>, missing |-> <<>>, at |-> 0]
Raise(kind, names) == [status |-> kind, rows |-> <<>>, missing |-> names, at |-> 0]
Return(rows) == [status |-> "ok", rows |-> rows, missing |-> <<>>, at |-> 0]

(***************************************************************************)
(* validate_tracks                                                         *)
(***************************************************************************)
\* sorted(missing)
SortedNames(S) == SelectSeq(ColumnOrder, LAMBDA c : c \in S)

\* mutant: the names are reported in reverse order
validate_tracks_Unsorted(cs) ==
    LET missing == REQUIRED_TRACK_COLS \ cs
        names == SortedNames(missing)
    IN  IF missing # {}
        THEN Raise("MissingColumns",
                   [k \in 1 .. Len(names) |-> names[Len(names) + 1 - k]])
        ELSE Return(<<>>)

validate_tracks(cs) ==
    LET missing == REQUIRED_TRACK_COLS \ cs
    IN  IF missing # {} THEN Raise("MissingColumns", SortedNames(missing))
        ELSE Return(<<>>)

(***************************************************************************)
(* compute_steps_for_tau                                                   *)
(***************************************************************************)
\* lexicographic key (cell_id, frame): a sorts strictly before b
KeyLess(a, b) ==
    \/ a.cell_id < b.cell_id
    \/ a.cell_id = b.cell_id /\ a.frame < b.frame

\* insert r behind every row whose key is not greater: the sort is stable
RECURSIVE InsertRow(_, _)
InsertRow(s, r) ==
    IF s = <<>> THEN <<r>>
    ELSE IF KeyLess(r, s[Len(s)]) THEN Append(InsertRow(SubSeq(s, 1, Len(s) - 1), r), s[Len(s)])
    ELSE Append(s, r)

\* mutant: the table is used in the order given, the sort left out
Unsorted(t) == t

\* tracks.sort_values(["cell_id", "frame"]).reset_index(drop=True)
RECURSIVE sort_values(_)
sort_values(t) ==
    IF t = <<>> THEN <<>>
    ELSE InsertRow(sort_values(SubSeq(t, 1, Len(t) - 1)), t[Len(t)])

\* positions of the rows of i's group (same cell_id), in table order
GroupOf(ts, i) ==
    SelectSeq([j \in 1 .. Len(ts) |-> j], LAMBDA j : ts[j].cell_id = ts[i].cell_id)

\* position of row i inside its group
PosInGroup(ts, i) == Cardinality({j \in 1 .. i : ts[j].cell_id = ts[i].cell_id})

\* mutant: the last possible pair of every group is lost (off by one)
ShiftIndexOffByOne(ts, i, tau) ==
    LET grp == GroupOf(ts, i)
        p   == PosInGroup(ts, i) + tau
    IN  IF p >= 1 /\ p < Len(grp) THEN grp[p] ELSE 0

\* mutant: shift(-tau) on the whole frame, the groupby left out
ShiftIndexUngrouped(ts, i, tau) ==
    IF i + tau >= 1 /\ i + tau <= Len(ts) THEN i + tau ELSE 0

\* g[...].shift(-tau): the position of the row tau places later in i's group,
\* 0 where the group has no such row (the shifted value is NaN)
ShiftIndex(ts, i, tau) ==
    LET grp == GroupOf(ts, i)
        p   == PosInGroup(ts, i) + tau
    IN  IF p >= 1 /\ p <= Len(grp) THEN grp[p] ELSE 0

\* mutant: the frame column is shifted by one row, not by tau rows
ShiftedFrameByOne(ts, col, i, tau) ==
    LET j == ShiftIndex(ts, i, IF col = "frame" THEN 1 ELSE tau)
    IN  IF j = 0 THEN NaN
        ELSE IF col = "frame" THEN Val(IntToFloat(ts[j][col]))
        ELSE Val(ts[j][col])

\* g[col].shift(-tau) at row i, as float64
Shifted(ts, col, i, tau) ==
    LET j == ShiftIndex(ts, i, tau)
    IN  IF j = 0 THEN NaN
        ELSE IF col = "frame" THEN Val(IntToFloat(ts[j][col]))
        ELSE Val(ts[j][col])

\* mutant: tau_min taken as tau_frames times a nominal frame interval
StepRowNominal(ts, i, tau) ==
    LET x_future == Shifted(ts, "x_um", i, tau)
        y_future == Shifted(ts, "y_um", i, tau)
        t_future == Shifted(ts, "t_min", i, tau)
        f_future == Shifted(ts, "frame", i, tau)
    IN  [cell_id     |-> astype_int(ts[i].cell_id),
         frame_start |-> astype_int(ts[i].frame),
         t_start_min |-> astype_float(ts[i].t_min),
         frame_end   |-> f_future,
         t_end_min   |-> t_future,
         dx_um       |-> FSub(x_future, Val(ts[i].x_um)),
         dy_um       |-> FSub(y_future, Val(ts[i].y_um)),
         tau_frames  |-> tau,
         tau_min     |-> IF t_future.nan THEN NaN ELSE Val(tau)]

\* row i of the steps frame before dropna
StepRow(ts, i, tau) ==
    LET x_future == Shifted(ts, "x_um", i, tau)
        y_future == Shifted(ts, "y_um", i, tau)
        t_future == Shifted(ts, "t_min", i, tau)
        f_future == Shifted(ts, "frame", i, tau)
        dx == FSub(x_future, Val(ts[i].x_um))
        dy == FSub(y_future, Val(ts[i].y_um))
        t_start  == astype_float(ts[i].t_min)
    IN  [cell_id     |-> astype_int(ts[i].cell_id),
         frame_start |-> astype_int(ts[i].frame),
         t_start_min |-> t_start,
         frame_end   |-> f_future,
         t_end_min   |-> t_future,
         dx_um       |-> dx,
         dy_um       |-> dy,
         tau_frames  |-> tau,
         tau_min     |-> FSub(t_future, Val(t_start))]

\* dropna(subset=["dx_um", "dy_um", "frame_end", "t_end_min"])
HasNa(s) == s.dx_um.nan \/ s.dy_um.nan \/ s.frame_end.nan \/ s.t_end_min.nan

\* the row after dropna and the dtype fixes of lines 73-74
Finish(s) ==
    [cell_id     |-> s.cell_id,
     frame_start |-> s.frame_start,
     t_start_min |-> s.t_start_min,
     frame_end   |-> astype_int(s.frame_end.v),
     t_end_min   |-> astype_float(s.t_end_min.v),
     dx_um       |-> s.dx_um.v,
     dy_um       |-> s.dy_um.v,
     tau_frames  |-> s.tau_frames,
     tau_min     |-> s.tau_min.v]

RECURSIVE DropNaFrom(_, _, _)
DropNaFrom(ts, i, tau) ==
    IF i > Len(ts) THEN <<>>
    ELSE LET s == StepRow(ts, i, tau)
         IN  IF HasNa(s) THEN DropNaFrom(ts, i + 1, tau)
             ELSE <<Finish(s)>> \o DropNaFrom(ts, i + 1, tau)

\* mutant: the lag check is written tau_frames < 0, so lag 0 is accepted
compute_steps_for_tau_ZeroLag(cs, t, tau_frames) ==
    LET v == validate_tracks(cs)
    IN  IF v.status # "ok" THEN v
        ELSE IF tau_frames < 0 THEN Raise("InvalidLag", <<>>)
        ELSE Return(DropNaFrom(sort_values(t), 1, tau_frames))

compute_steps_for_tau(cs, t, tau_frames) ==
    LET v == validate_tracks(cs)
    IN  IF v.status # "ok" THEN v
        ELSE IF tau_frames < 1 THEN Raise("InvalidLag", <<>>)
        ELSE Return(DropNaFrom(sort_values(t), 1, tau_frames))

(***************************************************************************)
(* compute_steps_multi_tau                                                 *)
(***************************************************************************)
\* pd.concat(all_steps, ignore_index=True): the blocks one after another;
\* pandas raises ValueError("No objects to concatenate") on an empty list
RECURSIVE Flatten(_)
Flatten(blocks) ==
    IF blocks = <<>> THEN <<>> ELSE Head(blocks) \o Flatten(Tail(blocks))

pd_concat(all_steps) ==
    IF all_steps = <<>> THEN Raise("NoObjectsToConcatenate", <<>>)
    ELSE Return(Flatten(all_steps))

\* the for loop of lines 87-89 from place i on, all_steps collected so far;
\* an exception of compute_steps_for_tau leaves the function at once
RECURSIVE ForEachTau(_, _, _, _, _)
ForEachTau(cs, t, taus, i, all_steps) ==
    IF i > Len(taus) THEN pd_concat(all_steps)
    ELSE LET s == compute_steps_for_tau(cs, t, taus[i])
         IN  IF s.status # "ok" THEN [s EXCEPT !.at = i]
             ELSE ForEachTau(cs, t, taus, i + 1, Append(all_steps, s.rows))

compute_steps_multi_tau(cs, t, taus) ==
    LET v == validate_tracks(cs)
    IN  IF v.status # "ok" THEN v
        ELSE ForEachTau(cs, t, taus, 1, <<>>)

(***************************************************************************)
(* summary_by_tau                                                          *)
(***************************************************************************)
\* the distinct values of S in ascending order (groupby sorts its keys)
RECURSIVE Ascending(_)
Ascending(S) ==
    IF S = {} THEN <<>>
    ELSE LET m == CHOOSE x \in S : \A y \in S : x <= y
         IN  <<m>> \o Ascending(S \ {m})

\* the rows of one group, in table order
Group(steps, key) == SelectSeq(steps, LAMBDA s : s.tau_frames = key)

RECURSIVE InsertValue(_, _)
InsertValue(s, v) ==
    IF s = <<>> THEN <<v>>
    ELSE IF v < s[Len(s)] THEN Append(InsertValue(SubSeq(s, 1, Len(s) - 1), v), s[Len(s)])
    ELSE Append(s, v)

RECURSIVE SortValues(_)
SortValues(vs) ==
    IF vs = <<>> THEN <<>>
    ELSE InsertValue(SortValues(SubSeq(vs, 1, Len(vs) - 1)), vs[Len(vs)])

\* mutant: the lower of the two middle values of an even group
MedianLow(vs) ==
    LET sorted == SortValues(vs)
        n == Len(sorted)
    IN  sorted[(n + 1) \div 2]

\* the "median" aggregation of a non-empty group
Median(vs) ==
    LET sorted == SortValues(vs)
        n == Len(sorted)
    IN  IF n % 2 = 1 THEN sorted[(n + 1) \div 2]
        ELSE FHalf(FAdd(sorted[n \div 2], sorted[n \div 2 + 1]))

SummaryRow(steps, key) ==
    LET g == Group(steps, key)
    IN  [tau_frames     |-> key,
         n_steps        |-> Len(g),
         n_cells        |-> Cardinality({g[k].cell_id : k \in 1 .. Len(g)}),
         median_tau_min |-> Median([k \in 1 .. Len(g) |-> g[k].tau_min])]

summary_by_tau(steps) ==
    LET keys == Ascending({steps[k].tau_frames : k \in 1 .. Len(steps)})
    IN  Return([n \in 1 .. Len(keys) |-> SummaryRow(steps, keys[n])])

(***************************************************************************)
(* The caller: builds a table, then calls one of the functions on it.      *)
(***************************************************************************)
TrackRows == {FullRow(c, f, p) : c \in CellIds, f \in Frames, p \in Points}

\* rows for the tables whose columns vary
ColRows ==
    { FullRow(1, 0, [t_min |-> 0, x_um |-> 1, y_um |-> 0]),
      FullRow(1, 1, [t_min |-> 2, x_um |-> 10, y_um |-> 3]) }

\* lags that go into a taus list
TausLags == {-1, 0, 1, 2}

RECURSIVE SeqsUpTo(_, _)
SeqsUpTo(S, n) ==
    IF n = 0 THEN {<<>>}
    ELSE LET shorter == SeqsUpTo(S, n - 1)
         IN  shorter \cup {Append(q, x) : q \in shorter, x \in S}

\* rows of Steps tables built by hand for summary_by_tau
TauMins == {4, 14, 20}

StepRows ==
    { [cell_id |-> c, frame_start |-> 0, t_start_min |-> 0, frame_end |-> k,
       t_end_min |-> m, dx_um |-> 0, dy_um |-> 0, tau_frames |-> k, tau_min |-> m] :
         c \in CellIds, k \in {1, 2}, m \in TauMins }

NoCall == [fn |-> "none", tau |-> 0, taus |-> <<>>]

Init ==
    /\ cols = REQUIRED_TRACK_COLS
    /\ tracks = <<>>
    /\ steps_all = <<>>
    /\ call = NoCall
    /\ out = EmptyResult

\* a table may lack required columns and may have a further one
InitCols ==
    /\ cols \in SUBSET AllCols
    /\ tracks = <<>>
    /\ steps_all = <<>>
    /\ call = NoCall
    /\ out = EmptyResult

\* the caller appends one observation to the table it is building
AppendRow(rows, limit) ==
    /\ call = NoCall
    /\ Len(tracks) < limit
    /\ \E r \in rows : tracks' = Append(tracks, RowOn(cols, r))
    /\ UNCHANGED <<cols, steps_all, call, out>>

AddRow == AppendRow(TrackRows, MaxRows)

AddRowMulti == AppendRow(TrackRows, MaxMultiRows)

AddRowCols == AppendRow(ColRows, MaxColRows)

\* the caller appends one Step to a Steps table it is building
AddStep ==
    /\ call = NoCall
    /\ Len(steps_all) < MaxSteps
    /\ \E s \in StepRows : steps_all' = Append(steps_all, s)
    /\ UNCHANGED <<cols, tracks, call, out>>

CallValidate ==
    /\ call = NoCall
    /\ call' = [fn |-> "validate_tracks", tau |-> 0, taus |-> <<>>]
    /\ out' = validate_tracks(cols)
    /\ UNCHANGED <<cols, tracks, steps_all>>

CallForTau ==
    /\ call = NoCall
    /\ \E tau \in Lags :
          /\ call' = [fn |-> "compute_steps_for_tau", tau |-> tau, taus |-> <<>>]
          /\ out' = compute_steps_for_tau(cols, tracks, tau)
    /\ UNCHANGED <<cols, tracks, steps_all>>

CallMultiTau ==
    /\ call = NoCall
    /\ \E taus \in SeqsUpTo(TausLags, MaxTaus) :
          /\ call' = [fn |-> "compute_steps_multi_tau", tau |-> 0, taus |-> taus]
          /\ out' = compute_steps_multi_tau(cols, tracks, taus)
    /\ UNCHANGED <<cols, tracks, steps_all>>

CallSummary ==
    /\ call = NoCall
    /\ call' = [fn |-> "summary_by_tau", tau |-> 0, taus |-> <<>>]
    /\ out' = summary_by_tau(steps_all)
    /\ UNCHANGED <<cols, tracks, steps_all>>

\* single-lag extraction on valid tables
Next == AddRow \/ CallForTau

Spec == Init /\ [][Next]_vars

\* single-lag and multi-lag extraction on valid tables
NextMulti == AddRowMulti \/ CallForTau \/ CallMultiTau

SpecMulti == Init /\ [][NextMulti]_vars

\* every entry point on tables with any set of columns
NextCols == AddRowCols \/ CallValidate \/ CallForTau \/ CallMultiTau

SpecCols == InitCols /\ [][NextCols]_vars

\* the summary of any Steps table
NextSummary == AddStep \/ CallSummary

SpecSummary == Init /\ [][NextSummary]_vars

(***************************************************************************)
(* Vocabulary of the properties, stated on the caller's table itself and   *)
(* not on the sorted copy the function works on.                           *)
(***************************************************************************)
ForTauReturned == call.fn = "compute_steps_for_tau" /\ out.status = "ok"

RowsOfCell(c) == {i \in 1 .. Len(tracks) : tracks[i].cell_id = c}

\* number of rows of trajectory c
N(c) == Cardinality(RowsOfCell(c))

Max0(n) == IF n > 0 THEN n ELSE 0

\* sum over the trajectories in S of max(0, N_c - tau)
RECURSIVE ExpectedSteps(_, _)
ExpectedSteps(S, tau) ==
    IF S = {} THEN 0
    ELSE LET c == CHOOSE x \in S : TRUE
         IN  Max0(N(c) - tau) + ExpectedSteps(S \ {c}, tau)

StepsOfCell(c) == {k \in 1 .. Len(out.rows) : out.rows[k].cell_id = c}

\* place (1-based) of row i in the frame-sorted sequence of its trajectory;
\* rows of equal frame keep their order in the table
Place(i) ==
    Cardinality({k \in RowsOfCell(tracks[i].cell_id) :
                    \/ tracks[k].frame < tracks[i].frame
                    \/ tracks[k].frame = tracks[i].frame /\ k <= i})

\* row j is the tau-th row after row i within the same trajectory
LaterBy(i, j, tau) ==
    /\ tracks[i].cell_id = tracks[j].cell_id
    /\ Place(j) = Place(i) + tau

\* no two rows of a trajectory share a frame
NoDuplicateFrames ==
    \A i, j \in 1 .. Len(tracks) :
        (tracks[i].cell_id = tracks[j].cell_id /\ tracks[i].frame = tracks[j].frame)
            => i = j

(***************************************************************************)
(* C1: for a lag >= 1 the call returns, and the number of Steps equals the *)
(* sum over the trajectories c of max(0, N_c - tau_frames), each           *)
(* trajectory contributing exactly max(0, N_c - tau_frames) Steps; a       *)
(* trajectory with fewer than tau_frames + 1 rows contributes none.        *)
(***************************************************************************)
C1_RowCount ==
    (call.fn = "compute_steps_for_tau" /\ call.tau >= 1) =>
        /\ out.status = "ok"
        /\ Len(out.rows) = ExpectedSteps(CellIds, call.tau)
        /\ \A c \in CellIds :
              Cardinality(StepsOfCell(c)) = Max0(N(c) - call.tau)
        /\ \A c \in CellIds : N(c) < call.tau + 1 => StepsOfCell(c) = {}

\* one trajectory long enough to give Steps, another too short to give any
C1_Witness ==
    /\ ForTauReturned
    /\ \E c \in CellIds : N(c) > call.tau /\ StepsOfCell(c) # {}
    /\ \E c \in CellIds : N(c) >= 1 /\ N(c) <= call.tau

(***************************************************************************)
(* C2: every Step is built from two rows of one trajectory, the end row    *)
(* being the tau_frames-th row after the start row in that trajectory's    *)
(* frame-sorted sequence; frame_end is the frame of that row, whatever     *)
(* frame_start + tau_frames is.                                            *)
(***************************************************************************)
C2_SameTrajectoryPairs ==
    ForTauReturned =>
        \A k \in 1 .. Len(out.rows) :
            \E i, j \in 1 .. Len(tracks) :
                /\ LaterBy(i, j, call.tau)
                /\ out.rows[k].cell_id = tracks[i].cell_id
                /\ out.rows[k].cell_id = tracks[j].cell_id
                /\ out.rows[k].frame_start = tracks[i].frame
                /\ out.rows[k].t_start_min = tracks[i].t_min
                /\ out.rows[k].frame_end = tracks[j].frame
                /\ out.rows[k].t_end_min = tracks[j].t_min

\* interleaved trajectories, given out of order, with a missing frame
C2_Witness ==
    /\ ForTauReturned
    /\ \E k \in 1 .. Len(out.rows) :
          out.rows[k].frame_end # out.rows[k].frame_start + call.tau
    /\ \E i \in 1 .. Len(tracks) - 2 :
          /\ tracks[i].cell_id = tracks[i + 2].cell_id
          /\ tracks[i].cell_id # tracks[i + 1].cell_id
          /\ tracks[i].frame > tracks[i + 2].frame

(***************************************************************************)
(* C3: for every Step, dx_um and dy_um are the float differences of the    *)
(* end row's and the start row's coordinates, tau_min is the float         *)
(* difference t_end_min - t_start_min of the two rows' times, and          *)
(* tau_frames is the requested lag.                                        *)
(***************************************************************************)
C3_Differences ==
    ForTauReturned =>
        \A k \in 1 .. Len(out.rows) :
            /\ out.rows[k].tau_frames = call.tau
            /\ out.rows[k].tau_min =
                  Round(out.rows[k].t_end_min - out.rows[k].t_start_min)
            /\ \E i, j \in 1 .. Len(tracks) :
                  /\ LaterBy(i, j, call.tau)
                  /\ out.rows[k].cell_id = tracks[i].cell_id
                  /\ out.rows[k].frame_start = tracks[i].frame
                  /\ out.rows[k].t_start_min = tracks[i].t_min
                  /\ out.rows[k].frame_end = tracks[j].frame
                  /\ out.rows[k].t_end_min = tracks[j].t_min
                  /\ out.rows[k].dx_um = Round(tracks[j].x_um - tracks[i].x_um)
                  /\ out.rows[k].dy_um = Round(tracks[j].y_um - tracks[i].y_um)
                  /\ out.rows[k].tau_min = Round(tracks[j].t_min - tracks[i].t_min)

\* non-uniform sampling: two Steps of one lag with different tau_min
C3_Witness ==
    /\ ForTauReturned
    /\ \E k, m \in 1 .. Len(out.rows) :
          /\ out.rows[k].tau_min # out.rows[m].tau_min
          /\ out.rows[k].dx_um # out.rows[k].dy_um
          /\ out.rows[k].dx_um # 0

(***************************************************************************)
(* Vocabulary for the multi-lag and the validation properties.             *)
(***************************************************************************)
MultiCalled == call.fn = "compute_steps_multi_tau"

ValidColumns == REQUIRED_TRACK_COLS \subseteq cols

\* the Steps of the single-lag call for the lag at place b of taus
Block(b) == compute_steps_for_tau(cols, tracks, call.taus[b]).rows

RECURSIVE BlocksLen(_)
BlocksLen(b) == IF b = 0 THEN 0 ELSE BlocksLen(b - 1) + Len(Block(b))

\* the result is the blocks of the lags of taus, one after another in the
\* order of taus, each with the rows of the single-lag call in their order
IsConcatenation ==
    /\ out.status = "ok"
    /\ Len(out.rows) = BlocksLen(Len(call.taus))
    /\ \A b \in 1 .. Len(call.taus) :
          \A k \in 1 .. Len(Block(b)) :
              out.rows[BlocksLen(b - 1) + k] = Block(b)[k]

(***************************************************************************)
(* C4: for every taus whose lags are all >= 1 (any order, duplicates       *)
(* allowed) the multi-lag call returns the concatenation, in the order of  *)
(* taus, of the single-lag results.                                        *)
(***************************************************************************)
C4_Concatenation ==
    (MultiCalled /\ ValidColumns /\ \A b \in 1 .. Len(call.taus) : call.taus[b] >= 1)
        => IsConcatenation

\* the same for the lists that hold at least one lag
C4_NonEmptyConcatenation ==
    (/\ MultiCalled
     /\ ValidColumns
     /\ call.taus # <<>>
     /\ \A b \in 1 .. Len(call.taus) : call.taus[b] >= 1)
        => IsConcatenation

(***************************************************************************)
(* C5: with an empty taus the multi-lag call returns, without an error, a  *)
(* Steps table of zero rows.                                               *)
(***************************************************************************)
C5_EmptyTausGivesEmptyTable ==
    (MultiCalled /\ ValidColumns /\ call.taus = <<>>)
        => (out.status = "ok" /\ out.rows = <<>>)

(***************************************************************************)
(* C6: on a valid table the single-lag call raises InvalidLag exactly when *)
(* tau_frames < 1 and returns for every lag >= 1; the multi-lag call       *)
(* raises InvalidLag whenever a lag of taus is < 1, at the first such lag  *)
(* in the order given, and returns no rows.                                *)
(***************************************************************************)
C6_InvalidLag ==
    /\ (call.fn = "compute_steps_for_tau" /\ ValidColumns) =>
          /\ out.status = "InvalidLag" <=> call.tau < 1
          /\ call.tau >= 1 => out.status = "ok"
          /\ call.tau < 1 => out.rows = <<>>
    /\ (/\ MultiCalled
        /\ ValidColumns
        /\ \E b \in 1 .. Len(call.taus) : call.taus[b] < 1) =>
          /\ out.status = "InvalidLag"
          /\ out.rows = <<>>
          /\ out.at \in 1 .. Len(call.taus)
          /\ call.taus[out.at] < 1
          /\ \A b \in 1 .. out.at - 1 : call.taus[b] >= 1

\* a multi-lag call that fails at its second lag, the first one being
\* valid and having Steps to give
C6_Witness ==
    /\ MultiCalled
    /\ out.status = "InvalidLag"
    /\ out.at = 2
    /\ compute_steps_for_tau(cols, tracks, call.taus[1]).rows # <<>>

(***************************************************************************)
(* C7: a table lacking a required column makes validate_tracks,            *)
(* compute_steps_for_tau and compute_steps_multi_tau raise MissingColumns  *)
(* naming exactly the columns required and not present, sorted; this is    *)
(* the outcome whatever the lag or the taus list is.  A table that has all *)
(* required columns, and possibly more, is accepted.                       *)
(***************************************************************************)
ColumnRank(c) == CHOOSE k \in 1 .. Len(ColumnOrder) : ColumnOrder[k] = c

C7_MissingColumns ==
    call.fn \in {"validate_tracks", "compute_steps_for_tau", "compute_steps_multi_tau"} =>
        /\ ~ ValidColumns =>
              /\ out.status = "MissingColumns"
              /\ {out.missing[k] : k \in 1 .. Len(out.missing)} = REQUIRED_TRACK_COLS \ cols
              /\ \A k, m \in 1 .. Len(out.missing) :
                    k < m => ColumnRank(out.missing[k]) < ColumnRank(out.missing[m])
              /\ out.rows = <<>>
        /\ ValidColumns => out.status # "MissingColumns"
        /\ (ValidColumns /\ call.fn = "validate_tracks") => out.status = "ok"

\* two columns missing and an invalid lag in taus: MissingColumns all the same
C7_Witness ==
    /\ MultiCalled
    /\ Cardinality(REQUIRED_TRACK_COLS \ cols) >= 2
    /\ "note" \in cols
    /\ tracks # <<>>
    /\ \E b \in 1 .. Len(call.taus) : call.taus[b] < 1
    /\ out.status = "MissingColumns"
    /\ Len(out.missing) >= 2

(***************************************************************************)
(* C8: summary_by_tau returns one row per distinct tau_frames, in          *)
(* ascending order of tau_frames (no row for an empty table); n_steps is   *)
(* the number of Steps of that lag, n_cells the number of distinct cell_id *)
(* among them, median_tau_min the median of their tau_min: the middle      *)
(* value of an odd group, the float average of the two middle values of an *)
(* even one.                                                               *)
(***************************************************************************)
StepsOfLag(key) == {k \in 1 .. Len(steps_all) : steps_all[k].tau_frames = key}

Below(G, v) == Cardinality({k \in G : steps_all[k].tau_min < v})
Above(G, v) == Cardinality({k \in G : steps_all[k].tau_min > v})

\* m is the median of the tau_min of the Steps at the places G
IsMedian(G, m) ==
    LET n == Cardinality(G)
    IN  IF n % 2 = 1
        THEN \E i \in G :
                /\ m = steps_all[i].tau_min
                /\ 2 * Below(G, m) < n
                /\ 2 * Above(G, m) < n
        ELSE \E i, j \in G :
                LET a == steps_all[i].tau_min
                    b == steps_all[j].tau_min
                IN  /\ i # j
                    /\ a <= b
                    /\ 2 * Below(G, a) < n
                    /\ 2 * (n - Above(G, a)) >= n
                    /\ 2 * Above(G, b) < n
                    /\ 2 * (n - Below(G, b)) >= n
                    /\ m = FHalf(FAdd(a, b))

C8_Summary ==
    call.fn = "summary_by_tau" =>
        /\ out.status = "ok"
        /\ {out.rows[n].tau_frames : n \in 1 .. Len(out.rows)}
              = {steps_all[k].tau_frames : k \in 1 .. Len(steps_all)}
        /\ \A n, m \in 1 .. Len(out.rows) :
              n < m => out.rows[n].tau_frames < out.rows[m].tau_frames
        /\ \A n \in 1 .. Len(out.rows) :
              LET G == StepsOfLag(out.rows[n].tau_frames)
              IN  /\ out.rows[n].n_steps = Cardinality(G)
                  /\ out.rows[n].n_cells = Cardinality({steps_all[k].cell_id : k \in G})
                  /\ IsMedian(G, out.rows[n].median_tau_min)

\* two lags, the larger one first in the table; an even group whose two
\* middle values differ and an odd group
C8_Witness ==
    /\ call.fn = "summary_by_tau"
    /\ Len(out.rows) = 2
    /\ steps_all[1].tau_frames > steps_all[Len(steps_all)].tau_frames
    /\ \E n \in 1 .. 2 :
          /\ out.rows[n].n_steps = 2
          /\ out.rows[n].n_cells = 2
          /\ \A k \in StepsOfLag(out.rows[n].tau_frames) :
                steps_all[k].tau_min # out.rows[n].median_tau_min
    /\ \E n \in 1 .. 2 : out.rows[n].n_steps % 2 = 1

(***************************************************************************)
(* C9: if no two rows of a trajectory share a frame, the Steps returned    *)
(* for the table in the order given are the Steps returned for the table   *)
(* sorted by (cell_id, frame): the row order of the input does not matter. *)
(* The Steps are ordered by ascending cell_id and, within a cell_id, by    *)
(* ascending frame_start.                                                  *)
(***************************************************************************)
\* number of rows whose key (cell_id, frame) is strictly smaller than row i's
Before(i) ==
    Cardinality({k \in 1 .. Len(tracks) :
                    \/ tracks[k].cell_id < tracks[i].cell_id
                    \/ /\ tracks[k].cell_id = tracks[i].cell_id
                       /\ tracks[k].frame < tracks[i].frame})

\* the table sorted by (cell_id, frame), defined when keys are distinct
SortedTable ==
    [n \in 1 .. Len(tracks) |->
        tracks[CHOOSE i \in 1 .. Len(tracks) : Before(i) = n - 1]]

C9_RowOrderIrrelevant ==
    (ForTauReturned /\ NoDuplicateFrames) =>
        /\ out = compute_steps_for_tau(cols, SortedTable, call.tau)
        /\ \A k, m \in 1 .. Len(out.rows) :
              k < m =>
                 \/ out.rows[k].cell_id < out.rows[m].cell_id
                 \/ /\ out.rows[k].cell_id = out.rows[m].cell_id
                    /\ out.rows[k].frame_start < out.rows[m].frame_start

\* a shuffled table (not sorted by cell_id, nor by frame) that gives a Step
C9_Witness ==
    /\ ForTauReturned
    /\ NoDuplicateFrames
    /\ Len(out.rows) >= 1
    /\ tracks # SortedTable
    /\ \E i \in 1 .. Len(tracks) - 1 : tracks[i].cell_id > tracks[i + 1].cell_id
    /\ \E i \in 1 .. Len(tracks) - 1 :
          /\ tracks[i].cell_id = tracks[i + 1].cell_id
          /\ tracks[i].frame > tracks[i + 1].frame

(***************************************************************************)
(* C10: a lag-k Step against the k consecutive lag-1 Steps of the same     *)
(* trajectory that begin at its start row.                                 *)
(***************************************************************************)
\* the Steps of lag 1 for the same table
Lag1 == compute_steps_for_tau(cols, tracks, 1).rows

\* ch lists k lag-1 Steps of S's trajectory, the first beginning at S's
\* start row and each next one beginning where the one before ends
IsChain(L, S, ch, k) ==
    /\ \A m \in 1 .. k : L[ch[m]].cell_id = S.cell_id
    /\ L[ch[1]].frame_start = S.frame_start
    /\ \A m \in 1 .. k - 1 : L[ch[m + 1]].frame_start = L[ch[m]].frame_end

Chains(L, S, k) == {ch \in [1 .. k -> 1 .. Len(L)] : IsChain(L, S, ch, k)}

RECURSIVE SumField(_, _, _, _)
SumField(L, ch, fld, k) ==
    IF k = 0 THEN 0 ELSE SumField(L, ch, fld, k - 1) + L[ch[k]][fld]

\* the same sum accumulated in float64, left to right
RECURSIVE FSumField(_, _, _, _)
FSumField(L, ch, fld, k) ==
    IF k = 0 THEN 0 ELSE FAdd(FSumField(L, ch, fld, k - 1), L[ch[k]][fld])

EqualsSum(L, S, ch, fld, k) ==
    \/ S[fld] = SumField(L, ch, fld, k)
    \/ S[fld] = FSumField(L, ch, fld, k)

\* the row of trajectory c at frame f
RowAt(c, f) ==
    CHOOSE i \in 1 .. Len(tracks) : tracks[i].cell_id = c /\ tracks[i].frame = f

\* the exact (unrounded) difference behind a lag-1 Step's field
ExactDiff(l, col) ==
    tracks[RowAt(l.cell_id, l.frame_end)][col]
        - tracks[RowAt(l.cell_id, l.frame_start)][col]

RECURSIVE SumExact(_, _, _, _)
SumExact(L, ch, col, k) ==
    IF k = 0 THEN 0 ELSE SumExact(L, ch, col, k - 1) + ExactDiff(L[ch[k]], col)

Representable(n) == Round(n) = n

\* none of the k + 1 subtractions behind S and its chain rounds
NoRounding(L, ch, col, k) ==
    /\ Representable(SumExact(L, ch, col, k))
    /\ \A m \in 1 .. k : Representable(ExactDiff(L[ch[m]], col))

\* C10 as claimed: the chain exists and dx_um, dy_um, tau_min of the lag-k
\* Step equal the sums over the chain (summed exactly or in float64)
C10_TelescopesExactly ==
    (ForTauReturned /\ NoDuplicateFrames) =>
        LET L == Lag1 IN
        \A n \in 1 .. Len(out.rows) :
            LET S == out.rows[n]
                k == call.tau
            IN  /\ Chains(L, S, k) # {}
                /\ \A ch \in Chains(L, S, k) :
                      /\ S.frame_end = L[ch[k]].frame_end
                      /\ EqualsSum(L, S, ch, "dx_um", k)
                      /\ EqualsSum(L, S, ch, "dy_um", k)
                      /\ EqualsSum(L, S, ch, "tau_min", k)

\* C10 amended: the chain exists, S starts where the first Step starts and
\* ends (frame_end, t_end_min) where the last one ends; dx_um, dy_um, tau_min
\* of S are the float64 roundings of the exact sums of the chain's unrounded
\* differences, and equal the sums of the chain's dx_um, dy_um, tau_min
\* whenever none of the subtractions involved rounds
C10_TelescopesUpToRounding ==
    (ForTauReturned /\ NoDuplicateFrames) =>
        LET L == Lag1 IN
        \A n \in 1 .. Len(out.rows) :
            LET S == out.rows[n]
                k == call.tau
            IN  /\ Chains(L, S, k) # {}
                /\ \A ch \in Chains(L, S, k) :
                      /\ S.frame_end = L[ch[k]].frame_end
                      /\ S.t_end_min = L[ch[k]].t_end_min
                      /\ S.t_start_min = L[ch[1]].t_start_min
                      /\ S.tau_min = Round(L[ch[k]].t_end_min - L[ch[1]].t_start_min)
                      /\ S.dx_um = Round(SumExact(L, ch, "x_um", k))
                      /\ S.dy_um = Round(SumExact(L, ch, "y_um", k))
                      /\ S.tau_min = Round(SumExact(L, ch, "t_min", k))
                      /\ NoRounding(L, ch, "x_um", k) => S.dx_um = SumField(L, ch, "dx_um", k)
                      /\ NoRounding(L, ch, "y_um", k) => S.dy_um = SumField(L, ch, "dy_um", k)
                      /\ NoRounding(L, ch, "t_min", k) => S.tau_min = SumField(L, ch, "tau_min", k)

\* a lag-2 Step whose dx_um is not the sum of the two
\* lag-1 dx_um, while its dy_um and tau_min are
C10_Witness ==
    /\ ForTauReturned
    /\ NoDuplicateFrames
    /\ call.tau = 2
    /\ LET L == Lag1 IN
       \E n \in 1 .. Len(out.rows) :
          \E ch \in Chains(L, out.rows[n], 2) :
              /\ ~ EqualsSum(L, out.rows[n], ch, "dx_um", 2)
              /\ NoRounding(L, ch, "y_um", 2)
              /\ out.rows[n].dy_um = SumField(L, ch, "dy_um", 2)
              /\ out.rows[n].tau_min = SumField(L, ch, "tau_min", 2)

====
